---- MODULE Spec2Model ----
(***************************************************************************)
(* Bus-tracker backend: the stop-arrival query GET /api/buses/stop/:stopId *)
(* (routes/buses.js) together with the operations that write a bus         *)
(* (routes/driver.js, routes/buses.js), the assignment of buses to drivers *)
(* (assign-bus, DELETE /api/buses/:id) and POST /api/auth/setup.           *)
(*                                                                         *)
(* Geography.  Every stored point lies on one meridian, so that the        *)
(* haversine formula reduces to the length of the arc between the two      *)
(* latitudes.  A latitude is written in units of one metre of meridian     *)
(* arc: distances are integers in metres, the returned distanceKm values   *)
(* (two decimals) are integers in hundredths of a kilometre.               *)
(***************************************************************************)
EXTENDS Integers, Sequences, FiniteSets, TLC

\* ---------------------------------------------------------------- values
\* JavaScript values that are not finite numbers.  Finite numbers of the
\* model are >= 0, the three values below are distinct negative markers.
Missing == 0 - 1
NaN == 0 - 2
Infinity == 0 - 3

IsFinite(x) == x >= 0

Abs(x) == IF x < 0 THEN 0 - x ELSE x

\* Math.round of the non-negative rational num/den: floor(num/den + 1/2).
MathRound(num, den) == (2 * num + den) \div (2 * den)

\* (variant: the nearest integer in place of the ceiling)
MathNearest(num, den) == (2 * num + den) \div (2 * den)

\* Math.ceil of the non-negative rational num/den.
MathCeil(num, den) == (num + den - 1) \div den

\* ------------------------------------------------------------- bounds
\* Largest nextStopIndex an admin request carries.
MaxStopIndex == 2
\* Last instant of the clock (minutes).
MaxTime == 3

\* ---------------------------------------------------------- constants
FallbackSpeed == 20
SlowSpeedLimit == 5
WalkingSpeed == 5
StaleMinutes == 2

\* ------------------------------------------------------- pure functions
\* haversineDistance, in metres.  Math.sin of a non-finite argument is
\* NaN, and NaN propagates; on finite arguments (all on MeridianLng, so
\* dLon = 0 and a = sin^2(dLat/2)) the result R * 2 * atan2(sqrt(a),
\* sqrt(1-a)) is R * |dLat|, the arc between the latitudes.
haversineDistance(lat1, lon1, lat2, lon2) ==
    IF IsFinite(lat1) /\ IsFinite(lon1) /\ IsFinite(lat2) /\ IsFinite(lon2)
    THEN Abs(lat2 - lat1)
    ELSE NaN

\* Math.round(distance * 100) / 100, in hundredths of a kilometre.
RoundKm(distance) == IF distance = NaN THEN NaN ELSE MathRound(distance, 10)

\* (variant: the fallback engages only for a stopped bus)
effectiveSpeedAnyPositive(speedKmh) ==
    IF speedKmh # Missing /\ speedKmh > 0 THEN speedKmh ELSE FallbackSpeed

\* speedKmh > 5 ? speedKmh : 20.  The comparison is false for undefined.
effectiveSpeed(speedKmh) ==
    IF speedKmh # Missing /\ speedKmh > SlowSpeedLimit THEN speedKmh ELSE FallbackSpeed

\* (variant: the time is computed from the rounded distance)
calculateETAFromRounded(busLat, busLon, stopLat, stopLon, speedKmh) ==
    LET distance == haversineDistance(busLat, busLon, stopLat, stopLon)
        speed == effectiveSpeed(speedKmh)
    IN  [ distanceKm |-> RoundKm(distance),
          etaMinutes |-> IF distance = NaN THEN NaN
                         ELSE MathRound(60 * RoundKm(distance), 100 * speed) ]

\* calculateETA: distance in metres, timeHours = distance / effectiveSpeed,
\* etaMinutes = Math.round(timeHours * 60) = round(60 * d / (1000 * speed)).
calculateETA(busLat, busLon, stopLat, stopLon, speedKmh) ==
    LET distance == haversineDistance(busLat, busLon, stopLat, stopLon)
        speed == effectiveSpeed(speedKmh)
    IN  [ distanceKm |-> RoundKm(distance),
          etaMinutes |-> IF distance = NaN THEN NaN
                         ELSE MathRound(60 * distance, 1000 * speed) ]

\* parseFloat on a query-string value.  A value is a sequence of characters;
\* the characters of the model are the digits, letters, and "Infinity" (the
\* eight letters, kept as one unit).  parseFloat reads the longest numeric
\* prefix and ignores what follows; with no numeric prefix it returns NaN.
Digits == <<"0", "1", "2", "3", "4", "5", "6", "7", "8", "9">>

IsDigit(c) == \E i \in 1..10 : Digits[i] = c

DigitValue(c) == (CHOOSE i \in 1..10 : Digits[i] = c) - 1

RECURSIVE DigitPrefix(_)
DigitPrefix(str) ==
    IF str = <<>> \/ ~IsDigit(Head(str)) THEN <<>>
    ELSE <<Head(str)>> \o DigitPrefix(Tail(str))

RECURSIVE Decimal(_)
Decimal(ds) ==
    IF ds = <<>> THEN 0
    ELSE 10 * Decimal(SubSeq(ds, 1, Len(ds) - 1)) + DigitValue(ds[Len(ds)])

parseFloat(str) ==
    IF str # <<>> /\ Head(str) = "Infinity" THEN Infinity
    ELSE IF DigitPrefix(str) = <<>> THEN NaN
    ELSE Decimal(DigitPrefix(str))

\* Array.prototype.sort with the comparator (a, b) => a.key - b.key: a
\* stable sort.  A NaN difference is taken as 0 by the comparator protocol.
CompareDescending(a, b) == IF a = NaN \/ b = NaN THEN 0 ELSE b - a

Compare(a, b) == IF a = NaN \/ b = NaN THEN 0 ELSE a - b

RECURSIVE Insert(_, _)
Insert(sorted, x) ==
    IF sorted = <<>> THEN <<x>>
    ELSE IF Compare(Head(sorted).key, x.key) > 0 THEN <<x>> \o sorted
    ELSE <<Head(sorted)>> \o Insert(Tail(sorted), x)

RECURSIVE StableSort(_)
StableSort(pairs) ==
    IF pairs = <<>> THEN <<>>
    ELSE Insert(StableSort(SubSeq(pairs, 1, Len(pairs) - 1)), pairs[Len(pairs)])

\* seq sorted by the numeric key Key[i] of its i-th element
SortByKey(seq, keys) ==
    LET sorted == StableSort([i \in 1..Len(seq) |-> [key |-> keys[i], val |-> seq[i]]])
    IN  [i \in 1..Len(seq) |-> sorted[i].val]

\* ------------------------------------------------------------ documents
\* null / undefined where a document or a sub-document is expected
Null == [null |-> TRUE]

Truthy(x) == x # Null

\* GeoJSON point: coordinates = [longitude, latitude]
Point(lat) == [coordinates |-> <<80, lat>>]

Lat(location) == location.coordinates[2]

Lng(location) == location.coordinates[1]

\* The stops collection.  s4 has lost its location (PUT /api/stops/:id
\* writes the request body without validation).
StopIds == {"s1", "s2", "s3", "s4"}

StopDb ==
    [ s \in StopIds |->
        CASE s = "s1" -> [_id |-> "s1", location |-> Point(1000), routes |-> <<"r1", "r2">>]
          [] s = "s2" -> [_id |-> "s2", location |-> Point(2000), routes |-> <<"r1", "r2">>]
          [] s = "s3" -> [_id |-> "s3", location |-> Point(3000), routes |-> <<"r1", "r2">>]
          [] s = "s4" -> [_id |-> "s4", location |-> Null, routes |-> <<"r2">>] ]

\* The routes collection.  r1 is stored in order of travel.  r2 is stored
\* in another order, has an entry whose stop was removed ("gone"), one for
\* s4, and none for s1 although s1 lists r2 among its routes.
RouteIds == {"r1", "r2"}

RouteDb ==
    [ r \in RouteIds |->
        IF r = "r1"
        THEN [_id |-> "r1",
              stops |-> << [stop |-> "s1", order |-> 0],
                           [stop |-> "s2", order |-> 1],
                           [stop |-> "s3", order |-> 2] >>]
        ELSE [_id |-> "r2",
              stops |-> << [stop |-> "s4", order |-> 3],
                           [stop |-> "s3", order |-> 2],
                           [stop |-> "gone", order |-> 1],
                           [stop |-> "s2", order |-> 0] >>] ]

\* Stop.findById
FindStopById(id) == IF id \in StopIds THEN StopDb[id] ELSE Null

\* populate({ path: 'route', populate: { path: 'stops.stop' } })
PopulateRoute(r) ==
    IF r \in RouteIds
    THEN [_id |-> r,
          stops |-> [i \in 1..Len(RouteDb[r].stops) |->
                        [stop |-> FindStopById(RouteDb[r].stops[i].stop),
                         order |-> RouteDb[r].stops[i].order]]]
    ELSE Null

\* ---------------------------------------------------------------- state
BusIds == {1, 2, 3}

VARIABLES
    busDb,      \* the buses collection: bus id -> document, or Null
    now,        \* Date.now(), in minutes
    qpc,        \* the stop-arrival request: "idle", "stop", "buses", "done"
    qreq,       \* its parameters: stopId, passengerLat, passengerLng
    qbuses,     \* the documents Bus.find returned to it
    qres,       \* its response
    ended,      \* buses end-shift or the sweep marked inactive, with no
                \* update-location since
    offline,    \* the same, with no write of isActive = true since
    qEnded,     \* ended, when the request read the buses
    qOffline,   \* offline, when the request read the buses
    calcIn,     \* arguments of a call of calculateETA
    calcOut,    \* its result
    lastWrite,  \* who wrote the buses collection last: "driver" (update-
                \* location, end-shift), "sweep", "admin" or "none"
    caller,     \* req.user of the last driver request served
    qprev,      \* what the previous stop-arrival request listed
    userDb,     \* the users collection: user id -> document, or Null
    ares,       \* the response of the last assign-bus or delete request
    setup       \* the requests POST /api/auth/setup: client -> position,
                \* body and response

vars == << busDb, now, qpc, qreq, qbuses, qres, ended, offline, qEnded,
           qOffline, calcIn, calcOut, lastWrite, caller, qprev, userDb, ares,
           setup >>

ghostVars == << lastWrite, caller, qprev >>

accountVars == << userDb, ares, setup >>

queryVars == << qpc, qreq, qbuses, qres, qEnded, qOffline >>

calcVars == << calcIn, calcOut >>

NoRequest == [stopId |-> "", passengerLat |-> <<>>, passengerLng |-> <<>>]

NoResponse == [status |-> 0]

NoCall == [busLat |-> 0, stopLat |-> 0, speedKmh |-> 0]

NoResult == [distanceKm |-> Missing, etaMinutes |-> Missing]

Exists(b) == busDb[b] # Null

NoCaller == [id |-> "", role |-> ""]

NoListing == [stopId |-> "", passenger |-> Null, buses |-> {}]

UserIds == {"d1", "d2", "a1", "a2", "a3"}

SetupClients == {"a1", "a2", "a3"}

NoSetup == [pc |-> "idle", body |-> [phone |-> "", password |-> <<>>], status |-> 0]

\* ------------------------------------------- GET /api/buses/stop/:stopId
\* Lines 80-98: what the handler derives from the stop and the query string.
\* A parameter that is absent or empty is falsy and gives null.
Passenger(req, stop) ==
    LET stopLat == Lat(stop.location)
        stopLon == Lng(stop.location)
        pLat == IF req.passengerLat # <<>> THEN parseFloat(req.passengerLat) ELSE Missing
        pLng == IF req.passengerLng # <<>> THEN parseFloat(req.passengerLng) ELSE Missing
        hasPassenger == pLat # Missing /\ pLng # Missing /\ pLat # NaN /\ pLng # NaN
        walkingDistanceKm ==
            IF hasPassenger THEN RoundKm(haversineDistance(pLat, pLng, stopLat, stopLon))
            ELSE 0
        walkingMinutes ==
            IF ~hasPassenger THEN 0
            ELSE IF walkingDistanceKm = NaN THEN NaN
            ELSE MathCeil(60 * walkingDistanceKm, 100 * WalkingSpeed)
    IN  [ stopLat |-> stopLat, stopLon |-> stopLon,
          pLat |-> pLat, pLng |-> pLng, hasPassenger |-> hasPassenger,
          walkingDistanceKm |-> walkingDistanceKm,
          walkingMinutes |-> walkingMinutes,
          etaTargetLat |-> IF hasPassenger THEN pLat ELSE stopLat,
          etaTargetLon |-> IF hasPassenger THEN pLng ELSE stopLon ]

\* Bus.find({ isActive: true, route: { $in: routeIds } }), in _id order;
\* routeIds are the routes of the stop that populate('routes') resolved.
RECURSIVE SeqOfSet(_)
SeqOfSet(S) ==
    IF S = {} THEN <<>>
    ELSE LET m == CHOOSE x \in S : \A y \in S : x <= y
         IN  <<m>> \o SeqOfSet(S \ {m})

FindBusesAnyStatus(stop) ==
    LET routeIds == {stop.routes[i] : i \in 1..Len(stop.routes)} \cap RouteIds
        ids == SeqOfSet({b \in BusIds : Exists(b) /\ busDb[b].route \in routeIds})
    IN  [i \in 1..Len(ids) |-> busDb[ids[i]]]

FindBuses(stop) ==
    LET routeIds == {stop.routes[i] : i \in 1..Len(stop.routes)} \cap RouteIds
        ids == SeqOfSet({b \in BusIds : Exists(b) /\ busDb[b].isActive
                                        /\ busDb[b].route \in routeIds})
    IN  [i \in 1..Len(ids) |-> busDb[ids[i]]]

\* route.stops.find(s => s.stop && s.stop._id.toString() === stopId):
\* the first such entry, or Null
FindTargetStop(route, stopId) ==
    LET hits == {i \in 1..Len(route.stops) :
                    Truthy(route.stops[i].stop) /\ route.stops[i].stop._id = stopId}
    IN  IF hits = {} THEN Null
        ELSE route.stops[CHOOSE i \in hits : \A j \in hits : i <= j]

\* (variant: the stops are left in the order the route stores them)
RoutePolylineUnsorted(route, bus, stopId) ==
    LET kept == SelectSeq(route.stops,
                          LAMBDA s : Truthy(s.stop) /\ Truthy(s.stop.location))
    IN  [i \in 1..Len(kept) |->
            [ stop |-> kept[i].stop._id,
              order |-> kept[i].order,
              lat |-> Lat(kept[i].stop.location),
              lng |-> Lng(kept[i].stop.location),
              isScannedStop |-> kept[i].stop._id = stopId,
              isPassed |-> kept[i].order < bus.nextStopIndex ]]

\* (variant: nextStopIndex is read again from the collection)
RoutePolylineRefetched(route, bus, stopId) ==
    LET kept == SelectSeq(route.stops,
                          LAMBDA s : Truthy(s.stop) /\ Truthy(s.stop.location))
        sorted == SortByKey(kept, [i \in 1..Len(kept) |-> kept[i].order])
    IN  [i \in 1..Len(sorted) |->
            [ stop |-> sorted[i].stop._id,
              order |-> sorted[i].order,
              lat |-> Lat(sorted[i].stop.location),
              lng |-> Lng(sorted[i].stop.location),
              isScannedStop |-> sorted[i].stop._id = stopId,
              isPassed |-> sorted[i].order < busDb[bus._id].nextStopIndex ]]

\* Lines 133-144, reading nextStopIndex from the document `bus`
RoutePolyline(route, bus, stopId) ==
    LET kept == SelectSeq(route.stops,
                          LAMBDA s : Truthy(s.stop) /\ Truthy(s.stop.location))
        sorted == SortByKey(kept, [i \in 1..Len(kept) |-> kept[i].order])
    IN  [i \in 1..Len(sorted) |->
            [ stop |-> sorted[i].stop._id,
              order |-> sorted[i].order,
              lat |-> Lat(sorted[i].stop.location),
              lng |-> Lng(sorted[i].stop.location),
              isScannedStop |-> sorted[i].stop._id = stopId,
              isPassed |-> sorted[i].order < bus.nextStopIndex ]]

\* (variant: a bus whose next stop is the scanned stop is skipped too)
OutcomeSkipsNextStop(bus, stopId) ==
    LET route == PopulateRoute(bus.route)
        targetStopInRoute == FindTargetStop(route, stopId)
    IN  IF ~Truthy(route) THEN "skip"
        ELSE IF ~Truthy(targetStopInRoute) THEN "skip"
        ELSE IF targetStopInRoute.order <= bus.nextStopIndex THEN "skip"
        ELSE IF ~Truthy(bus.currentLocation) THEN "throw"
        ELSE "push"

\* One turn of the loop of lines 111-163 on the document `bus`:
\* "skip" (continue), "throw" (a TypeError, caught at line 181) or "push".
Outcome(bus, stopId) ==
    LET route == PopulateRoute(bus.route)
        targetStopInRoute == FindTargetStop(route, stopId)
    IN  IF ~Truthy(route) THEN "skip"
        ELSE IF ~Truthy(targetStopInRoute) THEN "skip"
        ELSE IF targetStopInRoute.order < bus.nextStopIndex THEN "skip"
        ELSE IF ~Truthy(bus.currentLocation) THEN "throw"
        ELSE "push"

NaNPlus(a, b) == IF a = NaN \/ b = NaN THEN NaN ELSE a + b

\* (variant: the distance shown is the one to the ETA target)
EntryDistanceToTarget(bus, stopId, p) ==
    LET route == PopulateRoute(bus.route)
        targetStopInRoute == FindTargetStop(route, stopId)
        busLat == Lat(bus.currentLocation)
        busLon == Lng(bus.currentLocation)
        eta == calculateETA(busLat, busLon, p.etaTargetLat, p.etaTargetLon, bus.speed)
    IN  [ _id |-> bus._id,
          speed |-> bus.speed,
          distanceKm |-> eta.distanceKm,
          distanceToStop |-> eta.distanceKm,
          etaMinutes |-> eta.etaMinutes,
          totalJourneyMinutes |->
              IF p.hasPassenger THEN NaNPlus(eta.etaMinutes, p.walkingMinutes)
              ELSE eta.etaMinutes,
          stopsAway |-> targetStopInRoute.order - bus.nextStopIndex,
          routePolyline |-> RoutePolyline(route, bus, stopId) ]

\* The record pushed for `bus` (lines 121-162)
Entry(bus, stopId, p) ==
    LET route == PopulateRoute(bus.route)
        targetStopInRoute == FindTargetStop(route, stopId)
        busLat == Lat(bus.currentLocation)
        busLon == Lng(bus.currentLocation)
        eta == calculateETA(busLat, busLon, p.etaTargetLat, p.etaTargetLon, bus.speed)
    IN  [ _id |-> bus._id,
          speed |-> bus.speed,
          distanceKm |-> eta.distanceKm,
          distanceToStop |-> RoundKm(haversineDistance(busLat, busLon, p.stopLat, p.stopLon)),
          etaMinutes |-> eta.etaMinutes,
          totalJourneyMinutes |->
              IF p.hasPassenger THEN NaNPlus(eta.etaMinutes, p.walkingMinutes)
              ELSE eta.etaMinutes,
          stopsAway |-> targetStopInRoute.order - bus.nextStopIndex,
          routePolyline |-> RoutePolyline(route, bus, stopId) ]

\* busesWithETA after the loop and the sort of line 165
BusesWithETA(buses, stopId, p) ==
    LET pushed == SelectSeq(buses, LAMBDA bus : Outcome(bus, stopId) = "push")
        list == [i \in 1..Len(pushed) |-> Entry(pushed[i], stopId, p)]
    IN  SortByKey(list, [i \in 1..Len(list) |-> list[i].etaMinutes])

\* The response of lines 167-180, or of the catch of line 182
Response(req, buses) ==
    LET stop == FindStopById(req.stopId)
        p == Passenger(req, stop)
    IN  IF \E i \in 1..Len(buses) : Outcome(buses[i], req.stopId) = "throw"
        THEN [status |-> 500, message |-> "TypeError"]
        ELSE [ status |-> 200,
               stop |-> [_id |-> stop._id, lat |-> p.stopLat, lng |-> p.stopLon],
               passenger |->
                   IF p.hasPassenger
                   THEN [lat |-> p.pLat, lng |-> p.pLng,
                         walkingDistanceKm |-> p.walkingDistanceKm,
                         walkingMinutes |-> p.walkingMinutes]
                   ELSE Null,
               buses |-> BusesWithETA(buses, req.stopId, p) ]

\* (variant: no return for a stop that is not found; reading its location
\* throws)
QueryStartNoNotFound(stopId, passengerLat, passengerLng) ==
    /\ qpc = "idle"
    /\ qreq' = [stopId |-> stopId, passengerLat |-> passengerLat,
                passengerLng |-> passengerLng]
    /\ LET stop == FindStopById(stopId)
       IN  IF ~Truthy(stop) \/ ~Truthy(stop.location)
           THEN qpc' = "done" /\ qres' = [status |-> 500, message |-> "TypeError"]
           ELSE qpc' = "stop" /\ qres' = qres
    /\ UNCHANGED << busDb, now, qbuses, ended, offline, qEnded, qOffline, calcVars, accountVars >>

\* The request arrives; Stop.findById answers (lines 77-81).  Reading the
\* coordinates of a stop without location throws.
QueryStart(stopId, passengerLat, passengerLng) ==
    /\ qpc = "idle"
    /\ qreq' = [stopId |-> stopId, passengerLat |-> passengerLat,
                passengerLng |-> passengerLng]
    /\ LET stop == FindStopById(stopId)
       IN  IF ~Truthy(stop)
           THEN qpc' = "done" /\ qres' = [status |-> 404, message |-> "Stop not found"]
           ELSE IF ~Truthy(stop.location)
           THEN qpc' = "done" /\ qres' = [status |-> 500, message |-> "TypeError"]
           ELSE qpc' = "stop" /\ qres' = qres
    /\ UNCHANGED << busDb, now, qbuses, ended, offline, qEnded, qOffline, calcVars, accountVars >>

\* Bus.find answers (lines 101-107)
QueryFindBuses ==
    /\ qpc = "stop"
    /\ qpc' = "buses"
    /\ qbuses' = FindBuses(FindStopById(qreq.stopId))
    /\ qEnded' = {b \in BusIds : ended[b]}
    /\ qOffline' = {b \in BusIds : offline[b]}
    /\ UNCHANGED << busDb, now, qreq, qres, ended, offline, calcVars, accountVars >>

\* The loop, the sort and res.json (lines 109-183), on the documents read
QueryRespond ==
    /\ qpc = "buses"
    /\ qpc' = "done"
    /\ qres' = Response(qreq, qbuses)
    /\ UNCHANGED << busDb, now, qreq, qbuses, ended, offline, qEnded, qOffline, calcVars, accountVars >>

\* The client has the response; the next request may come
QueryReset ==
    /\ qpc = "done"
    /\ qpc' = "idle"
    /\ qreq' = NoRequest
    /\ qbuses' = <<>>
    /\ qres' = NoResponse
    /\ qEnded' = {}
    /\ qOffline' = {}
    /\ UNCHANGED << busDb, now, ended, offline, calcVars, accountVars >>

\* --------------------------------------------------------- bus writers
\* new Bus(req.body): the schema defaults, overridden by the body
NewBus(id, body) ==
    LET defaults == [ _id |-> id, route |-> "", driver |-> "",
                      currentLocation |-> Point(0), speed |-> 0,
                      isActive |-> FALSE, lastUpdated |-> now,
                      nextStopIndex |-> 0 ]
    IN  [f \in DOMAIN defaults |-> IF f \in DOMAIN body THEN body[f] ELSE defaults[f]]

\* findByIdAndUpdate(id, req.body): the fields of the body are set as given
UpdatedBus(doc, body) ==
    [f \in DOMAIN doc |-> IF f \in DOMAIN body THEN body[f] ELSE doc[f]]

\* POST /api/driver/update-location.  `user` is req.user.  A latitude of 0
\* is falsy (400); an unknown bus is 404; another driver's bus is 403.
UpdateLocation(user, busId, latitude, speed) ==
    /\ busId \in BusIds /\ latitude # 0
    /\ Exists(busId)
    /\ busDb[busId].driver = user.id \/ user.role = "admin"
    /\ busDb' = [busDb EXCEPT ![busId] =
                    [@ EXCEPT !.currentLocation = Point(latitude),
                              !.speed = IF speed = Missing THEN 0 ELSE speed,
                              !.isActive = TRUE,
                              !.lastUpdated = now]]
    /\ ended' = [ended EXCEPT ![busId] = FALSE]
    /\ offline' = [offline EXCEPT ![busId] = FALSE]
    /\ UNCHANGED << now, queryVars, calcVars, accountVars >>

\* (variant: the shift ends but the bus stays active)
EndShiftStaysActive(busId) ==
    /\ Exists(busId)
    /\ busDb' = [busDb EXCEPT ![busId] = [@ EXCEPT !.nextStopIndex = 0]]
    /\ ended' = [ended EXCEPT ![busId] = TRUE]
    /\ offline' = [offline EXCEPT ![busId] = TRUE]
    /\ UNCHANGED << now, queryVars, calcVars, accountVars >>

\* POST /api/driver/end-shift
EndShift(busId) ==
    /\ Exists(busId)
    /\ busDb' = [busDb EXCEPT ![busId] =
                    [@ EXCEPT !.isActive = FALSE, !.nextStopIndex = 0]]
    /\ ended' = [ended EXCEPT ![busId] = TRUE]
    /\ offline' = [offline EXCEPT ![busId] = TRUE]
    /\ UNCHANGED << now, queryVars, calcVars, accountVars >>

\* GET /api/buses: the staleness sweep of lines 49-52 (the list it then
\* returns changes nothing)
Stale(b) == Exists(b) /\ busDb[b].isActive /\ busDb[b].lastUpdated < now - StaleMinutes

GetBuses ==
    /\ busDb' = [b \in BusIds |->
                    IF Stale(b) THEN [busDb[b] EXCEPT !.isActive = FALSE] ELSE busDb[b]]
    /\ ended' = [b \in BusIds |-> ended[b] \/ Stale(b)]
    /\ offline' = [b \in BusIds |-> offline[b] \/ Stale(b)]
    /\ UNCHANGED << now, queryVars, calcVars, accountVars >>

\* POST /api/buses
CreateBus(id, body) ==
    /\ ~Exists(id)
    /\ busDb' = [busDb EXCEPT ![id] = NewBus(id, body)]
    /\ ended' = [ended EXCEPT ![id] = FALSE]
    /\ offline' = [offline EXCEPT ![id] = FALSE]
    /\ UNCHANGED << now, queryVars, calcVars, accountVars >>

\* PUT /api/buses/:id
UpdateBus(id, body) ==
    /\ Exists(id)
    /\ busDb' = [busDb EXCEPT ![id] = UpdatedBus(@, body)]
    /\ offline' = IF "isActive" \in DOMAIN body /\ body.isActive
                  THEN [offline EXCEPT ![id] = FALSE]
                  ELSE offline
    /\ UNCHANGED << now, ended, queryVars, calcVars, accountVars >>

\* ------------------------------------------------- drivers and buses
\* A user document.  assignedBus is a bus id, or 0 for null.
NewUser(id, role) == [_id |-> id, role |-> role, assignedBus |-> 0]

\* User.findByIdAndUpdate(id, { assignedBus: null }); no document, no write
UnassignUser(users, id) ==
    IF id \in UserIds /\ users[id] # Null
    THEN [users EXCEPT ![id] = [@ EXCEPT !.assignedBus = 0]]
    ELSE users

\* Bus.findByIdAndUpdate(id, { driver: null }); no document, no write
UnassignBus(buses, id) ==
    IF id \in BusIds /\ buses[id] # Null
    THEN [buses EXCEPT ![id] = UpdatedBus(@, [driver |-> ""])]
    ELSE buses

\* POST /api/driver/assign-bus, body { driverId, busId }; busId 0 is null.
\* The driver's previous bus is released before the target bus is looked
\* up; the driver document is saved last.
AssignBus(driverId, busId) ==
    LET released == IF userDb[driverId].assignedBus # 0
                    THEN UnassignBus(busDb, userDb[driverId].assignedBus)
                    ELSE busDb
    IN  /\ IF driverId \notin UserIds \/ userDb[driverId] = Null
              \/ userDb[driverId].role # "driver"
           THEN /\ ares' = [status |-> 404, message |-> "Driver not found."]
                /\ UNCHANGED << busDb, userDb >>
           ELSE IF busId = 0
           THEN /\ busDb' = released
                /\ userDb' = [userDb EXCEPT ![driverId] = [@ EXCEPT !.assignedBus = 0]]
                /\ ares' = [status |-> 200, message |-> "Assignment updated."]
           ELSE IF busId \notin BusIds \/ released[busId] = Null
           THEN /\ busDb' = released
                /\ userDb' = userDb
                /\ ares' = [status |-> 404, message |-> "Bus not found."]
           ELSE LET bus == released[busId]
                    users == IF bus.driver # "" /\ bus.driver # driverId
                             THEN UnassignUser(userDb, bus.driver)
                             ELSE userDb
                IN  /\ busDb' = [released EXCEPT ![busId] = [@ EXCEPT !.driver = driverId]]
                    /\ userDb' = [users EXCEPT ![driverId] =
                                     [@ EXCEPT !.assignedBus = busId]]
                    /\ ares' = [status |-> 200, message |-> "Assignment updated."]
        /\ UNCHANGED << now, ended, offline, queryVars, calcVars, setup >>

\* DELETE /api/buses/:id
DeleteBus(id) ==
    /\ IF id \notin BusIds \/ busDb[id] = Null
       THEN /\ ares' = [status |-> 404, message |-> "Bus not found"]
            /\ UNCHANGED << busDb, userDb >>
       ELSE /\ busDb' = [busDb EXCEPT ![id] = Null]
            /\ userDb' = IF busDb[id].driver # ""
                         THEN UnassignUser(userDb, busDb[id].driver)
                         ELSE userDb
            /\ ares' = [status |-> 200, message |-> "deleted"]
    /\ UNCHANGED << now, ended, offline, queryVars, calcVars, setup >>

\* ------------------------------------------------ POST /api/auth/setup
\* A client's request, in steps at its awaits.  A user is known by its
\* phone: the document of phone p is userDb[p].  A password is a sequence
\* of characters, empty when the body has none.
AdminExists == \E u \in UserIds : userDb[u] # Null /\ userDb[u].role = "admin"

\* User.findOne({ role: 'admin' }) answers, then the body is validated
SetupStart(c, body) ==
    /\ setup[c].pc = "idle"
    /\ setup' = [setup EXCEPT ![c] =
                    IF AdminExists
                    THEN [pc |-> "done", body |-> body, status |-> 403]
                    ELSE IF body.phone = "" \/ body.password = <<>>
                            \/ Len(body.password) < 6
                    THEN [pc |-> "done", body |-> body, status |-> 400]
                    ELSE [pc |-> "phone", body |-> body, status |-> 0]]
    /\ UNCHANGED << busDb, now, ended, offline, queryVars, calcVars, userDb, ares >>

\* User.findOne({ phone }) answers
SetupCheckPhone(c) ==
    /\ setup[c].pc = "phone"
    /\ setup' = [setup EXCEPT ![c] =
                    IF userDb[setup[c].body.phone] # Null
                    THEN [@ EXCEPT !.pc = "done", !.status = 400]
                    ELSE [@ EXCEPT !.pc = "save"]]
    /\ UNCHANGED << busDb, now, ended, offline, queryVars, calcVars, userDb, ares >>

\* admin.save() answers: 201, or 500 when the unique index on phone
\* refuses the document
SetupSave(c) ==
    /\ setup[c].pc = "save"
    /\ IF userDb[setup[c].body.phone] # Null
       THEN /\ setup' = [setup EXCEPT ![c] = [@ EXCEPT !.pc = "done", !.status = 500]]
            /\ userDb' = userDb
       ELSE /\ setup' = [setup EXCEPT ![c] = [@ EXCEPT !.pc = "done", !.status = 201]]
            /\ userDb' = [userDb EXCEPT ![setup[c].body.phone] =
                             NewUser(setup[c].body.phone, "admin")]
    /\ UNCHANGED << busDb, now, ended, offline, queryVars, calcVars, ares >>

\* The client has the response; it may send another request
SetupReset(c) ==
    /\ setup[c].pc = "done"
    /\ setup' = [setup EXCEPT ![c] = NoSetup]
    /\ UNCHANGED << busDb, now, ended, offline, queryVars, calcVars, userDb, ares >>

\* A minute passes
Tick ==
    /\ now < MaxTime
    /\ now' = now + 1
    /\ UNCHANGED << busDb, ended, offline, queryVars, calcVars, accountVars >>

\* ------------------------------------------------------ specification
\* The fleet: bus 1 was created for route r1 and driver d1; the admin
\* creates bus 2 for route r2.
Users == { [id |-> "d1", role |-> "driver"], [id |-> "d2", role |-> "driver"],
           [id |-> "a1", role |-> "admin"] }

FleetIds == {1, 2}

CreateBodies ==
    { [route |-> "r2", driver |-> "d2", currentLocation |-> Point(1944)],
      [route |-> "r2", driver |-> "d2", currentLocation |-> Point(1944),
       isActive |-> TRUE, nextStopIndex |-> 1] }

UpdateBodies ==
    { [nextStopIndex |-> k] : k \in 0..MaxStopIndex }
    \cup { [isActive |-> TRUE], [currentLocation |-> Null] }

Latitudes == {1944}

Speeds == {Missing}

QueryStops == {"s2", "s9"}

Init ==
    /\ now = 0
    /\ busDb = [b \in BusIds |->
                  IF b = 1
                  THEN NewBus(1, [route |-> "r1", driver |-> "d1",
                                  currentLocation |-> Point(1944), lastUpdated |-> 0])
                  ELSE Null]
    /\ qpc = "idle"
    /\ qreq = NoRequest
    /\ qbuses = <<>>
    /\ qres = NoResponse
    /\ ended = [b \in BusIds |-> FALSE]
    /\ offline = [b \in BusIds |-> FALSE]
    /\ qEnded = {}
    /\ qOffline = {}
    /\ calcIn = NoCall
    /\ calcOut = NoResult
    /\ lastWrite = "none"
    /\ caller = NoCaller
    /\ qprev = NoListing
    /\ userDb = [u \in UserIds |-> Null]
    /\ ares = NoResponse
    /\ setup = [c \in SetupClients |-> NoSetup]

\* The requests of drivers and admins run while a stop-arrival request is
\* between two of its awaits.
Next ==
    \/ /\ \E user \in Users, b \in FleetIds, lat \in Latitudes, speed \in Speeds :
             UpdateLocation(user, b, lat, speed)
       /\ UNCHANGED ghostVars
    \/ (\E b \in FleetIds : EndShift(b)) /\ UNCHANGED ghostVars
    \/ (\E b \in FleetIds, body \in CreateBodies : CreateBus(b, body)) /\ UNCHANGED ghostVars
    \/ (\E b \in FleetIds, body \in UpdateBodies : UpdateBus(b, body)) /\ UNCHANGED ghostVars
    \/ (\E stopId \in QueryStops : QueryStart(stopId, <<>>, <<>>)) /\ UNCHANGED ghostVars
    \/ QueryFindBuses /\ UNCHANGED ghostVars
    \/ QueryRespond /\ UNCHANGED ghostVars
    \/ QueryReset /\ UNCHANGED ghostVars

Spec == Init /\ [][Next]_vars

\* Requests served one after the other, the clock and the sweep included.
NextShift ==
    \/ /\ qpc = "idle"
       /\ \E user \in Users, b \in FleetIds, lat \in Latitudes, speed \in Speeds :
             UpdateLocation(user, b, lat, speed)
       /\ lastWrite' = "driver" /\ UNCHANGED << caller, qprev >>
    \/ qpc = "idle" /\ (\E b \in FleetIds : EndShift(b)) /\ lastWrite' = "driver" /\ UNCHANGED << caller, qprev >>
    \/ /\ qpc = "idle"
       /\ \E b \in FleetIds, body \in CreateBodies : CreateBus(b, body)
       /\ lastWrite' = "admin" /\ UNCHANGED << caller, qprev >>
    \/ /\ qpc = "idle"
       /\ \E b \in FleetIds, body \in UpdateBodies : UpdateBus(b, body)
       /\ lastWrite' = "admin" /\ UNCHANGED << caller, qprev >>
    \/ qpc = "idle" /\ GetBuses /\ lastWrite' = "sweep" /\ UNCHANGED << caller, qprev >>
    \/ qpc = "idle" /\ Tick /\ UNCHANGED ghostVars
    \/ (\E stopId \in QueryStops : QueryStart(stopId, <<>>, <<>>)) /\ UNCHANGED ghostVars
    \/ QueryFindBuses /\ UNCHANGED ghostVars
    \/ QueryRespond /\ UNCHANGED ghostVars
    \/ QueryReset /\ UNCHANGED ghostVars

SpecShift == Init /\ [][NextShift]_vars

\* ------------------------------------------------- the query on a fleet
\* Stop-arrival requests on a fleet at rest.  Buses 1 and 2 run on r1 and
\* bus 3 on r2; positions, speeds, progress and the passenger's query
\* string vary.
FleetLatitudes == {1944, 2000, 22000}

FleetSpeeds == {7, 40}

FleetBus(id, route, lat, speed, active, idx) ==
    [ _id |-> id, route |-> route, driver |-> "d1",
      currentLocation |-> Point(lat), speed |-> speed,
      isActive |-> active, lastUpdated |-> 0, nextStopIndex |-> idx ]

PassengerLats ==
    { <<>>, <<"x">>, <<"Infinity">>, <<"2", "0", "5", "6">>,
      <<"2", "0", "5", "6", "x">>, <<"3", "0", "1", "0">>, <<"4", "0", "0", "0">> }

PassengerLngs == { <<>>, <<"8", "0">>, <<"Infinity">> }

FleetStops == {"s1", "s2", "s3"}

InitQuery ==
    /\ now = 0
    /\ \E lat1 \in FleetLatitudes, lat2 \in FleetLatitudes,
          speed1 \in FleetSpeeds, speed2 \in FleetSpeeds,
          idx1 \in 0..MaxStopIndex, idx2 \in 0..MaxStopIndex, active2 \in BOOLEAN :
          busDb = [b \in BusIds |->
                     CASE b = 1 -> FleetBus(1, "r1", lat1, speed1, TRUE, idx1)
                       [] b = 2 -> FleetBus(2, "r1", lat2, speed2, active2, idx2)
                       [] b = 3 -> FleetBus(3, "r2", 2056, 0, TRUE, 0)]
    /\ qpc = "idle"
    /\ qreq = NoRequest
    /\ qbuses = <<>>
    /\ qres = NoResponse
    /\ ended = [b \in BusIds |-> FALSE]
    /\ offline = [b \in BusIds |-> FALSE]
    /\ qEnded = {}
    /\ qOffline = {}
    /\ calcIn = NoCall
    /\ calcOut = NoResult
    /\ lastWrite = "none"
    /\ caller = NoCaller
    /\ qprev = NoListing
    /\ userDb = [u \in UserIds |-> Null]
    /\ ares = NoResponse
    /\ setup = [c \in SetupClients |-> NoSetup]

NextQuery ==
    \/ /\ \E stopId \in FleetStops, passengerLat \in PassengerLats,
             passengerLng \in PassengerLngs :
             QueryStart(stopId, passengerLat, passengerLng)
       /\ UNCHANGED ghostVars
    \/ QueryFindBuses /\ UNCHANGED ghostVars
    \/ QueryRespond /\ UNCHANGED ghostVars
    \/ QueryReset /\ UNCHANGED ghostVars

SpecQuery == InitQuery /\ [][NextQuery]_vars

\* ------------------------------------------------- the driver requests
\* update-location and end-shift, each from any authenticated user for any
\* bus, among the admin's requests.  end-shift does not read req.user: the
\* caller of a request is recorded as it is served.
NextDriver ==
    \/ /\ \E user \in Users, b \in FleetIds, lat \in Latitudes, speed \in Speeds :
             UpdateLocation(user, b, lat, speed) /\ caller' = user
       /\ lastWrite' = "driver" /\ UNCHANGED qprev
    \/ /\ \E user \in Users, b \in FleetIds : EndShift(b) /\ caller' = user
       /\ lastWrite' = "driver" /\ UNCHANGED qprev
    \/ /\ \E b \in FleetIds, body \in CreateBodies : CreateBus(b, body)
       /\ lastWrite' = "admin" /\ UNCHANGED << caller, qprev >>
    \/ /\ \E b \in FleetIds, body \in UpdateBodies : UpdateBus(b, body)
       /\ lastWrite' = "admin" /\ UNCHANGED << caller, qprev >>
    \/ Tick /\ UNCHANGED ghostVars

SpecDriver == Init /\ [][NextDriver]_vars

\* ------------------------------------------------------- assignments
\* Three buses with no driver, two drivers with no bus and an admin; the
\* admin's assign-bus and delete requests, for ids known and unknown.
AssignDrivers == {"d1", "d2", "a1", "d9"}

AssignBuses == {0, 1, 2, 3, 9}

InitAssign ==
    /\ now = 0
    /\ busDb = [b \in BusIds |-> NewBus(b, [route |-> "r1"])]
    /\ qpc = "idle"
    /\ qreq = NoRequest
    /\ qbuses = <<>>
    /\ qres = NoResponse
    /\ ended = [b \in BusIds |-> FALSE]
    /\ offline = [b \in BusIds |-> FALSE]
    /\ qEnded = {}
    /\ qOffline = {}
    /\ calcIn = NoCall
    /\ calcOut = NoResult
    /\ lastWrite = "none"
    /\ caller = NoCaller
    /\ qprev = NoListing
    /\ userDb = [u \in UserIds |->
                   CASE u \in {"d1", "d2"} -> NewUser(u, "driver")
                     [] u = "a1" -> NewUser(u, "admin")
                     [] OTHER -> Null]
    /\ ares = NoResponse
    /\ setup = [c \in SetupClients |-> NoSetup]

NextAssign ==
    \/ /\ \E driverId \in AssignDrivers, busId \in AssignBuses : AssignBus(driverId, busId)
       /\ UNCHANGED ghostVars
    \/ (\E id \in AssignBuses \ {0} : DeleteBus(id)) /\ UNCHANGED ghostVars

SpecAssign == InitAssign /\ [][NextAssign]_vars

\* ------------------------------------------------------------- setup
\* No admin yet, one registered driver.  Each client sends setup requests
\* with its own phone or the driver's, and a password that is missing, too
\* short or long enough.
Passwords == { <<>>, <<"a", "b", "c">>, <<"s", "e", "c", "r", "e", "t">> }

InitSetup ==
    /\ now = 0
    /\ busDb = [b \in BusIds |-> Null]
    /\ qpc = "idle"
    /\ qreq = NoRequest
    /\ qbuses = <<>>
    /\ qres = NoResponse
    /\ ended = [b \in BusIds |-> FALSE]
    /\ offline = [b \in BusIds |-> FALSE]
    /\ qEnded = {}
    /\ qOffline = {}
    /\ calcIn = NoCall
    /\ calcOut = NoResult
    /\ lastWrite = "none"
    /\ caller = NoCaller
    /\ qprev = NoListing
    /\ userDb = [u \in UserIds |-> IF u = "d1" THEN NewUser(u, "driver") ELSE Null]
    /\ ares = NoResponse
    /\ setup = [c \in SetupClients |-> NoSetup]

NextSetup ==
    \/ /\ \E c \in SetupClients :
             \E phone \in {c, "d1"}, password \in Passwords :
                 SetupStart(c, [phone |-> phone, password |-> password])
       /\ UNCHANGED ghostVars
    \/ (\E c \in SetupClients : SetupCheckPhone(c)) /\ UNCHANGED ghostVars
    \/ (\E c \in SetupClients : SetupSave(c)) /\ UNCHANGED ghostVars
    \/ (\E c \in SetupClients : SetupReset(c)) /\ UNCHANGED ghostVars

SpecSetup == InitSetup /\ [][NextSetup]_vars

\* ------------------------------------------- two requests, one fleet
\* Stop-arrival requests one after the other on a fleet at rest; what a
\* request listed is kept for the next one.  The requests differ in the
\* stop and in the passenger's position.
PairLats == { <<>>, <<"2", "0", "5", "6">>, <<"4", "0", "0", "0">> }

PairLngs == { <<>>, <<"8", "0">> }

InitPair ==
    /\ now = 0
    /\ \E lat1 \in FleetLatitudes, lat2 \in FleetLatitudes,
          idx1 \in 0..MaxStopIndex, idx2 \in 0..MaxStopIndex :
          busDb = [b \in BusIds |->
                     CASE b = 1 -> FleetBus(1, "r1", lat1, 40, TRUE, idx1)
                       [] b = 2 -> FleetBus(2, "r1", lat2, 7, TRUE, idx2)
                       [] b = 3 -> FleetBus(3, "r2", 2056, 0, TRUE, 0)]
    /\ qpc = "idle"
    /\ qreq = NoRequest
    /\ qbuses = <<>>
    /\ qres = NoResponse
    /\ ended = [b \in BusIds |-> FALSE]
    /\ offline = [b \in BusIds |-> FALSE]
    /\ qEnded = {}
    /\ qOffline = {}
    /\ calcIn = NoCall
    /\ calcOut = NoResult
    /\ lastWrite = "none"
    /\ caller = NoCaller
    /\ qprev = NoListing
    /\ userDb = [u \in UserIds |-> Null]
    /\ ares = NoResponse
    /\ setup = [c \in SetupClients |-> NoSetup]

\* What the answered request listed, less the fields that depend on the
\* passenger
Listing ==
    IF qres.status = 200
    THEN [ stopId |-> qreq.stopId,
           passenger |-> qres.passenger,
           buses |-> { [ _id |-> qres.buses[i]._id,
                         distanceToStop |-> qres.buses[i].distanceToStop,
                         stopsAway |-> qres.buses[i].stopsAway,
                         routePolyline |-> qres.buses[i].routePolyline ] :
                       i \in 1..Len(qres.buses) } ]
    ELSE NoListing

NextPair ==
    \/ /\ \E stopId \in FleetStops, passengerLat \in PairLats, passengerLng \in PairLngs :
             QueryStart(stopId, passengerLat, passengerLng)
       /\ UNCHANGED ghostVars
    \/ QueryFindBuses /\ UNCHANGED ghostVars
    \/ QueryRespond /\ UNCHANGED ghostVars
    \/ QueryReset /\ qprev' = Listing /\ UNCHANGED << lastWrite, caller >>

SpecPair == InitPair /\ [][NextPair]_vars

\* ------------------------------------------------------- calculateETA
\* Calls of calculateETA on two points of the meridian and a speed.
CalcLatitudes == {1000, 1056, 1944, 2000, 22000}

CalcSpeeds == {Missing, 0, 3, 5, 6, 7, 20, 40}

InitETA ==
    /\ now = 0
    /\ busDb = [b \in BusIds |-> Null]
    /\ qpc = "idle"
    /\ qreq = NoRequest
    /\ qbuses = <<>>
    /\ qres = NoResponse
    /\ ended = [b \in BusIds |-> FALSE]
    /\ offline = [b \in BusIds |-> FALSE]
    /\ qEnded = {}
    /\ qOffline = {}
    /\ calcIn \in [busLat : CalcLatitudes, stopLat : {1000, 2000}, speedKmh : CalcSpeeds]
    /\ calcOut = NoResult
    /\ lastWrite = "none"
    /\ caller = NoCaller
    /\ qprev = NoListing
    /\ userDb = [u \in UserIds |-> Null]
    /\ ares = NoResponse
    /\ setup = [c \in SetupClients |-> NoSetup]

Calc ==
    /\ calcOut = NoResult
    /\ lastWrite = "none"
    /\ calcOut' = calculateETA(calcIn.busLat, 80, calcIn.stopLat, 80, calcIn.speedKmh)
    /\ UNCHANGED << busDb, now, queryVars, ended, offline, calcIn, accountVars >>

NextETA == Calc /\ UNCHANGED ghostVars

SpecETA == InitETA /\ [][NextETA]_vars

\* ================================================================ claims
\* n is the integer nearest to num/den, halves going up
IsRounded(n, num, den) == 2 * den * n - den <= 2 * num /\ 2 * num < 2 * den * n + den

Answered == qpc = "done" /\ qres.status = 200

Listed == {qres.buses[i] : i \in 1..Len(qres.buses)}

\* C9: calculateETA divides by the reported speed when it is strictly above
\* 5 km/h and by 20 km/h otherwise (0, exactly 5, a missing speed), so any
\* speed <= 5 gives the etaMinutes of speed 20, and the ETA is a finite
\* number.
C9_EffectiveSpeed ==
    calcOut # NoResult =>
        LET d == Abs(calcIn.busLat - calcIn.stopLat)
            slow == calcIn.speedKmh = Missing \/ calcIn.speedKmh <= 5
        IN  /\ calcOut.etaMinutes \in Nat
            /\ slow => IsRounded(calcOut.etaMinutes, 60 * d, 1000 * 20)
            /\ ~slow => IsRounded(calcOut.etaMinutes, 60 * d, 1000 * calcIn.speedKmh)

\* 20 km at a reported speed of exactly 5 km/h: 60 minutes, as at 20 km/h
C9_Witness ==
    /\ calcOut # NoResult
    /\ calcIn.speedKmh = 5
    /\ Abs(calcIn.busLat - calcIn.stopLat) = 20000
    /\ calcOut.etaMinutes = 60

\* The speed the claim's formula divides by, from the listed speed
ListedSpeed(r) == IF r.speed > 5 THEN r.speed ELSE 20

\* C10 (as claimed): for every listed bus, etaMinutes is
\* round(distanceKm / effectiveSpeed * 60) with distanceKm the returned
\* distance, rounded to 2 decimals.
C10_EtaFromReturnedDistance ==
    Answered =>
        \A r \in Listed :
            r.distanceKm # NaN =>
                IsRounded(r.etaMinutes, 60 * r.distanceKm, 100 * ListedSpeed(r))

\* The ETA target of the answered request, from its response
TargetLat == IF qres.passenger = Null THEN qres.stop.lat ELSE qres.passenger.lat

\* C10 (amended): for every listed bus, etaMinutes is
\* round(d / effectiveSpeed * 60) with d the unrounded distance from the
\* bus to the ETA target, and the returned distanceKm is d rounded to 2
\* decimals; a returned distanceKm of 20 at speed 40 goes with etaMinutes
\* 30, a returned distanceKm of 0 with etaMinutes 0.
C10_EtaFromDistance ==
    Answered =>
        \A r \in Listed :
            r.distanceKm # NaN =>
                LET d == Abs(Lat(busDb[r._id].currentLocation) - TargetLat)
                IN  /\ IsRounded(r.etaMinutes, 60 * d, 1000 * ListedSpeed(r))
                    /\ IsRounded(r.distanceKm, d, 10)
                    /\ r.distanceKm = 2000 /\ r.speed = 40 => r.etaMinutes = 30
                    /\ r.distanceKm = 0 => r.etaMinutes = 0

\* A bus 56 m from the stop at 7 km/h: distanceKm 0.06, etaMinutes 0
C10_Witness ==
    /\ Answered
    /\ \E r \in Listed :
          /\ r.speed = 7 /\ r.distanceKm = 6 /\ r.etaMinutes = 0
          /\ Abs(Lat(busDb[r._id].currentLocation) - TargetLat) = 56

\* The candidate buses of the answered request: active, on a route that
\* the scanned stop lists
Candidates ==
    {b \in BusIds :
        /\ Exists(b) /\ busDb[b].isActive
        /\ \E i \in 1..Len(StopDb[qreq.stopId].routes) :
              StopDb[qreq.stopId].routes[i] = busDb[b].route}

\* The route of bus b has an entry for the scanned stop, of order >= the
\* bus's nextStopIndex
Ahead(b) ==
    \E i \in 1..Len(RouteDb[busDb[b].route].stops) :
        /\ RouteDb[busDb[b].route].stops[i].stop = qreq.stopId
        /\ RouteDb[busDb[b].route].stops[i].order >= busDb[b].nextStopIndex

IsListed(b) == \E r \in Listed : r._id = b

\* C1: a candidate bus is in the returned list if and only if its route has
\* an entry for the scanned stop whose order is >= the bus's nextStopIndex,
\* whatever its position, its speed and the passenger's position; no other
\* bus is listed.
C1_Inclusion ==
    Answered =>
        /\ \A b \in Candidates : IsListed(b) <=> Ahead(b)
        /\ \A r \in Listed : r._id \in Candidates

\* Bus 1 is 20 km away and listed, bus 2 stands at the stop it has passed
\* and is not; a passenger position is given
C1_Witness ==
    /\ Answered /\ qres.passenger # Null
    /\ {1, 2} \subseteq Candidates
    /\ IsListed(1) /\ ~IsListed(2)
    /\ Lat(busDb[1].currentLocation) = 22000
    /\ Lat(busDb[2].currentLocation) = qres.stop.lat

\* Place of bus id in the list of candidates the request read
Pos(id) == CHOOSE k \in 1..Len(qbuses) : qbuses[k]._id = id

\* C2: the returned list is in ascending order of etaMinutes, and two buses
\* of equal etaMinutes are in the order of the candidate list read.
C2_Ranking ==
    Answered =>
        \A i \in 1..Len(qres.buses), j \in 1..Len(qres.buses) :
            i < j =>
                /\ qres.buses[i].etaMinutes <= qres.buses[j].etaMinutes
                /\ qres.buses[i].etaMinutes = qres.buses[j].etaMinutes
                      => Pos(qres.buses[i]._id) < Pos(qres.buses[j]._id)

\* Three buses: the first candidate has the largest ETA and comes last, the
\* other two tie and keep their order
C2_Witness ==
    /\ Answered /\ Len(qres.buses) = 3
    /\ qres.buses[1]._id = 2 /\ qres.buses[2]._id = 3 /\ qres.buses[3]._id = 1
    /\ qres.buses[1].etaMinutes = qres.buses[2].etaMinutes
    /\ qres.buses[2].etaMinutes < qres.buses[3].etaMinutes

\* A query-string value that is the decimal notation of a finite number
WellFormed(str) == str # <<>> /\ \A i \in 1..Len(str) : IsDigit(str[i])

\* C5: when the passenger latitude or longitude is missing, malformed or not
\* finite, the request is answered as without passenger: no error, passenger
\* null, the ETA to the stop, totalJourneyMinutes = etaMinutes.
C5_InvalidPassengerIgnored ==
    (qpc = "done" /\ ~(WellFormed(qreq.passengerLat) /\ WellFormed(qreq.passengerLng))) =>
        /\ qres.status = 200
        /\ qres.passenger = Null
        /\ \A r \in Listed :
              /\ r.totalJourneyMinutes = r.etaMinutes
              /\ r.distanceKm = r.distanceToStop

C4_NeverDecreasesWhileActive ==
    [][ \A b \in BusIds :
          (Exists(b) /\ busDb[b].isActive /\ busDb'[b] # Null /\ busDb'[b].isActive)
              => busDb'[b].nextStopIndex >= busDb[b].nextStopIndex ]_vars

\* C4 (amended): update-location, end-shift and the sweep never decrease the
\* nextStopIndex of a bus that stays active (end-shift sets it to 0 and the
\* bus inactive); only an admin update writes a lower value.
C4_DecreasedByAdminOnly ==
    [][ \A b \in BusIds :
          (/\ Exists(b) /\ busDb[b].isActive /\ busDb'[b] # Null /\ busDb'[b].isActive
           /\ busDb'[b].nextStopIndex < busDb[b].nextStopIndex)
              => lastWrite' = "admin" ]_vars

\* A driver's update-location has just kept bus 1 active at index 2
C4_Witness ==
    /\ lastWrite = "driver"
    /\ Exists(1) /\ busDb[1].isActive /\ busDb[1].nextStopIndex = 2
    /\ busDb[1].lastUpdated = now /\ now > 0

\* C6: a candidate bus with incomplete data is skipped silently: a request
\* for a stop that exists and has its location is answered with the list of
\* the other buses, never with an error.
C6_BadBusSkipped ==
    (qpc = "done" /\ qreq.stopId \in StopIds /\ Truthy(StopDb[qreq.stopId].location))
        => /\ qres.status = 200
           /\ \A i \in 1..Len(qbuses) :
                 ~Truthy(qbuses[i].currentLocation) => ~IsListed(qbuses[i]._id)

Scanned(r) ==
    {r.routePolyline[i] : i \in {k \in 1..Len(r.routePolyline) :
                                    r.routePolyline[k].isScannedStop}}

\* C8: for every listed bus there is one nextStopIndex value n from which
\* stopsAway, every isPassed flag and the inclusion derive, also when
\* writes of the bus ran during the request: stopsAway = order(scanned
\* stop) - n >= 0 and the scanned stop is not marked passed.
C8_OneSnapshot ==
    Answered =>
        \A r \in Listed :
            /\ r.stopsAway >= 0
            /\ Scanned(r) # {}
            /\ \A e \in Scanned(r) : ~e.isPassed
            /\ \E n \in 0..MaxStopIndex :
                  /\ \A e \in Scanned(r) : r.stopsAway = e.order - n
                  /\ \A i \in 1..Len(r.routePolyline) :
                        r.routePolyline[i].isPassed <=> r.routePolyline[i].order < n

\* The bus was listed from index 0 and an admin moved it to index 2 before
\* the answer left
C8_Witness ==
    /\ Answered
    /\ \E r \in Listed :
          /\ r.stopsAway = 1 /\ Exists(r._id)
          /\ busDb[r._id].nextStopIndex = 2

\* n is the least integer >= num/den
IsCeiling(n, num, den) == den * (n - 1) < num /\ num <= den * n

C12_PassengerIndependent ==
    (Answered /\ qprev.stopId = qreq.stopId) => Listing.buses = qprev.buses

\* The previous request for this stop had no passenger and this one has:
\* the same buses, two of them, with a distanceKm that is no longer the
\* distance to the stop, and in another order
C12_Witness ==
    /\ Answered /\ qprev.stopId = qreq.stopId
    /\ qprev.passenger = Null /\ qres.passenger # Null
    /\ Len(qres.buses) >= 2
    /\ \E r \in Listed : r.distanceKm # r.distanceToStop
    /\ qres.buses[1].distanceToStop > qres.buses[2].distanceToStop

\* The entries of the stored route of the listed bus r whose stop exists and
\* has its coordinates
Resolvable(r) ==
    LET stops == RouteDb[busDb[r._id].route].stops
    IN  {i \in 1..Len(stops) :
            stops[i].stop \in StopIds /\ StopDb[stops[i].stop].location # Null}

\* C13: the routePolyline of every listed bus holds exactly the entries of
\* its route whose stop is resolved and has coordinates, each once with its
\* order and coordinates, in strictly ascending order of `order`;
\* isScannedStop is true exactly for the scanned stop and isPassed exactly
\* for the entries of order < the bus's nextStopIndex.  For the route
\* [s1(0), s2(1), s3(2)], nextStopIndex 1 and the scanned stop s2: s1
\* passed, s2 scanned and not passed, s3 neither.
C13_Polyline ==
    Answered =>
        \A r \in Listed :
            LET stops == RouteDb[busDb[r._id].route].stops
                poly == r.routePolyline
            IN  /\ Len(poly) = Cardinality(Resolvable(r))
                /\ \A i \in Resolvable(r) :
                      \E k \in 1..Len(poly) :
                          /\ poly[k].stop = stops[i].stop
                          /\ poly[k].order = stops[i].order
                          /\ poly[k].lat = Lat(StopDb[stops[i].stop].location)
                          /\ poly[k].lng = Lng(StopDb[stops[i].stop].location)
                /\ \A k \in 1..(Len(poly) - 1) : poly[k].order < poly[k + 1].order
                /\ \A k \in 1..Len(poly) :
                      /\ poly[k].isScannedStop <=> poly[k].stop = qreq.stopId
                      /\ poly[k].isPassed <=> poly[k].order < busDb[r._id].nextStopIndex
                /\ (busDb[r._id].route = "r1" /\ busDb[r._id].nextStopIndex = 1
                        /\ qreq.stopId = "s2")
                      => /\ Len(poly) = 3
                         /\ poly[1].stop = "s1" /\ poly[1].isPassed /\ ~poly[1].isScannedStop
                         /\ poly[2].stop = "s2" /\ ~poly[2].isPassed /\ poly[2].isScannedStop
                         /\ poly[3].stop = "s3" /\ ~poly[3].isPassed /\ ~poly[3].isScannedStop

\* s2 is scanned; a bus of r1 with nextStopIndex 1 is listed, and so is the
\* bus of r2, whose stored route is in another order and has two entries
\* that do not resolve: its polyline is s2, s3
C13_Witness ==
    /\ Answered /\ qreq.stopId = "s2"
    /\ \E r \in Listed :
          /\ busDb[r._id].route = "r1" /\ busDb[r._id].nextStopIndex = 1
          /\ Len(r.routePolyline) = 3 /\ r.routePolyline[1].isPassed
    /\ \E r \in Listed :
          /\ busDb[r._id].route = "r2"
          /\ Len(r.routePolyline) = 2 /\ Len(RouteDb["r2"].stops) = 4
          /\ r.routePolyline[1].stop = "s2" /\ r.routePolyline[2].stop = "s3"

\* C14: a request to update-location or end-shift changes a bus only when
\* its caller is the driver assigned to that bus or has the role admin.
C14_DriverWritesAuthorized ==
    [][ lastWrite' = "driver" =>
          \A b \in BusIds :
              busDb'[b] # busDb[b] =>
                  busDb[b].driver = caller'.id \/ caller'.role = "admin" ]_vars

\* bus.driver = d if and only if d.assignedBus = that bus
Paired ==
    \A b \in BusIds, d \in UserIds :
        (Exists(b) /\ busDb[b].driver = d)
            <=> (userDb[d] # Null /\ userDb[d].assignedBus = b)

\* C15: after any sequence of assign-bus requests and bus deletions, the
\* assignment is a one-to-one pairing, bus.driver = d if and only if
\* d.assignedBus = that bus, and a request rejected with 404 leaves the
\* buses and the users as they were.
C15_ConsistentPairing ==
    /\ []Paired
    /\ [][ ares'.status = 404 => (busDb' = busDb /\ userDb' = userDb) ]_vars

\* The admins there are
Admins == {u \in UserIds : userDb[u] # Null /\ userDb[u].role = "admin"}

\* C16: setup creates an admin only when there is none: a request that
\* arrives when an admin exists is rejected with 403 and creates no user,
\* and whatever the interleaving of the requests, starting with no admin,
\* at most one admin is created.
C16_SetupOnce ==
    /\ [](Cardinality(Admins) <= 1)
    /\ [][ \A c \in SetupClients :
             (Admins # {} /\ setup[c].pc = "idle" /\ setup'[c].pc # "idle")
                 => (setup'[c].status = 403 /\ userDb' = userDb) ]_vars

====
